---- MODULE Spec2Model ----
(***************************************************************************)
(* Contract Compatibility Governance Engine.                               *)
(*                                                                         *)
(* Model of src/core_engine (version comparator, schema drift detector,    *)
(* compatibility policy evaluator, impact classifier, CI/CD gate           *)
(* evaluator) and of the orchestrator in src/pipelines/batch_pipeline.py.  *)
(*                                                                         *)
(* A Python str is a sequence of one-character strings, so that            *)
(* str.split(".") and int() are computed and not assumed.  A Python list   *)
(* built from a set (schema_diff.py) is a set: its order is the            *)
(* arbitrary iteration order of the set and nothing reads it.              *)
(***************************************************************************)
EXTENDS Integers, Sequences, FiniteSets, TLC

VARIABLES
    pc,                     \* position of the flow under study
    args,                   \* arguments of the function applied on its own
    result,                 \* what that function returned or raised
    policy_exists,          \* os.path.exists(args.policy)
    contract_exists,        \* os.path.exists(args.contract)
    expected_version,       \* policy.get("expected_version")
    compatibility_mode,     \* policy.get("compatibility_mode")
    execution_profile,      \* policy.get("execution_profile", "batch")
    baseline_contract,      \* the baseline document, None when not found
    contract,               \* the active contract document
    compatibility_decision, \* the governance record of step [11], or None
    reports,                \* the records written into the report directory
    log,                    \* what the logger emitted, in order
    exit_code,              \* exit status of the process, -1 while it runs
    clock,                  \* the UTC wall clock, in ticks
    report_directory,       \* the report directory: whether it exists, and
                            \* the content of its files by path
    writers                 \* the calls of write_compatibility_report
                            \* under way, each with its locals

funvars == <<args, result>>
auditvars == <<clock, report_directory, writers>>
runvars == <<policy_exists, contract_exists, expected_version,
             compatibility_mode, execution_profile, baseline_contract,
             contract, compatibility_decision, reports, log, exit_code>>
vars == <<pc, args, result, policy_exists, contract_exists,
          expected_version, compatibility_mode, execution_profile,
          baseline_contract, contract, compatibility_decision, reports,
          log, exit_code, clock, report_directory, writers>>

(***************************************************************************)
(* Bounds of the model.                                                    *)
(***************************************************************************)
\* longest version string given to compare_versions on its own
MaxLen == 4
\* number of distinct field names in the documents given to
\* compare_contract_fields and classify_impact on their own
NumFields == 2
\* number of distinct field names in the documents a pipeline run loads
RegistryFields == 1
\* the impact tiers given to evaluate_cicd_gate on its own are the
\* integers from -MaxTier to MaxTier
MaxTier == 50
\* the exit codes given to terminate_pipeline on its own are 0..MaxExitCode
\* (the orchestrator passes 1 and 2)
MaxExitCode == 4
\* number of calls of write_compatibility_report into one report directory
NumWriters == 2
\* the clock advances in ticks, TicksPerSecond of them to a second, up to
\* MaxClock ticks
TicksPerSecond == 2
MaxClock == 3

(***************************************************************************)
(* Python values.                                                          *)
(***************************************************************************)
\* Python's None
None == [none |-> TRUE]
\* a call that returned v
Return(v) == [value |-> v]
\* a call left by an exception of class e
Raise(e) == [exception |-> e]

\* the characters version strings are made of: two digits, the sign and
\* the separator
Chars == {"0", "1", "-", "."}
Digits == {"0", "1"}

DigitValue(c) == IF c = "0" THEN 0 ELSE 1

\* every str of at most n characters
StringsUpTo(n) == UNION {[1..k -> Chars] : k \in 0..n}

(***************************************************************************)
(* Version comparator: src/core_engine/versioning/comparator.py            *)
(***************************************************************************)
RECURSIVE split(_)
\* s.split("."): the pieces of s between the dots, empty pieces kept
split(s) ==
    IF s = <<>> THEN << <<>> >>
    ELSE LET rest == split(Tail(s))
         IN  IF Head(s) = "."
                THEN << <<>> >> \o rest
                ELSE << <<Head(s)>> \o Head(rest) >> \o Tail(rest)

\* the digits of a literal once its sign is taken off
Unsigned(tok) == IF tok # <<>> /\ Head(tok) = "-" THEN Tail(tok) ELSE tok

\* int(tok) returns: an optional sign, then one digit or more
IsIntLiteral(tok) ==
    /\ Unsigned(tok) # <<>>
    /\ \A i \in 1..Len(Unsigned(tok)) : Unsigned(tok)[i] \in Digits

RECURSIVE Decimal(_)
Decimal(ds) ==
    IF ds = <<>> THEN 0
    ELSE 10 * Decimal(SubSeq(ds, 1, Len(ds) - 1)) + DigitValue(ds[Len(ds)])

\* int(tok) where it returns
int(tok) ==
    IF tok # <<>> /\ Head(tok) = "-"
       THEN 0 - Decimal(Unsigned(tok))
       ELSE Decimal(tok)

\* major, minor = map(int, version.split(".")) does not raise
Unpacks(version) ==
    /\ Len(split(version)) = 2
    /\ IsIntLiteral(split(version)[1])
    /\ IsIntLiteral(split(version)[2])

\* compare_versions with the minor components consulted first
compare_versions_minor_first(con_version, exp_version) ==
    IF ~(Unpacks(exp_version) /\ Unpacks(con_version))
       THEN Raise("ValueError")
    ELSE LET exp_major == int(split(exp_version)[1])
             exp_minor == int(split(exp_version)[2])
             con_major == int(split(con_version)[1])
             con_minor == int(split(con_version)[2])
         IN  IF con_minor > exp_minor THEN Return("MINOR_UPGRADE")
             ELSE IF con_minor < exp_minor THEN Return("MINOR_DOWNGRADE")
             ELSE IF con_major > exp_major THEN Return("MAJOR_UPGRADE")
             ELSE IF con_major < exp_major THEN Return("MAJOR_DOWNGRADE")
             ELSE Return("EQUAL")

\* compare_versions that reports a lesser minor as no difference
compare_versions_no_minor_downgrade(con_version, exp_version) ==
    IF ~(Unpacks(exp_version) /\ Unpacks(con_version))
       THEN Raise("ValueError")
    ELSE LET exp_major == int(split(exp_version)[1])
             exp_minor == int(split(exp_version)[2])
             con_major == int(split(con_version)[1])
             con_minor == int(split(con_version)[2])
         IN  IF con_major # exp_major
                THEN IF con_major > exp_major
                        THEN Return("MAJOR_UPGRADE")
                        ELSE Return("MAJOR_DOWNGRADE")
             ELSE IF con_minor > exp_minor THEN Return("MINOR_UPGRADE")
             ELSE Return("EQUAL")

compare_versions(con_version, exp_version) ==
    IF ~(Unpacks(exp_version) /\ Unpacks(con_version))
       THEN Raise("ValueError")
    ELSE LET exp_major == int(split(exp_version)[1])
             exp_minor == int(split(exp_version)[2])
             con_major == int(split(con_version)[1])
             con_minor == int(split(con_version)[2])
         IN  IF con_major # exp_major
                THEN IF con_major > exp_major
                        THEN Return("MAJOR_UPGRADE")
                        ELSE Return("MAJOR_DOWNGRADE")
             ELSE IF con_minor > exp_minor THEN Return("MINOR_UPGRADE")
             ELSE IF con_minor < exp_minor THEN Return("MINOR_DOWNGRADE")
             ELSE Return("EQUAL")

(***************************************************************************)
(* Compatibility policy evaluator:                                         *)
(* src/core_engine/compatibility/policy_engine.py                          *)
(***************************************************************************)
\* evaluate_compatibility with a permissive default for unlisted modes
evaluate_compatibility_permissive(comparison, mode) ==
    IF mode = "strict"
       THEN Return(comparison = "EXACT_MATCH")
    ELSE IF mode = "forward_minor"
       THEN Return(comparison \in {"EXACT_MATCH", "MINOR_UPGRADE"})
    ELSE Return(TRUE)

\* evaluate_compatibility whose forward_minor is as narrow as strict
evaluate_compatibility_forward_exact(comparison, mode) ==
    IF mode \in {"strict", "forward_minor"}
       THEN Return(comparison = "EXACT_MATCH")
    ELSE IF mode = "override"
       THEN Return(TRUE)
    ELSE Raise("ValueError")

evaluate_compatibility(comparison, mode) ==
    IF mode = "strict"
       THEN Return(comparison = "EXACT_MATCH")
    ELSE IF mode = "forward_minor"
       THEN Return(comparison \in {"EXACT_MATCH", "MINOR_UPGRADE"})
    ELSE IF mode = "override"
       THEN Return(TRUE)
    ELSE Raise("ValueError")

\* the evaluator of src/day14_pipeline_p3.py, an earlier copy of the engine
evaluate_compatibility_p3(comparison, mode) ==
    IF mode = "strict"
       THEN Return(comparison = "EQUAL")
    ELSE IF mode = "forward_minor"
       THEN Return(comparison \in {"EQUAL", "MINOR_UPGRADE"})
    ELSE IF mode = "backward_minor"
       THEN Return(comparison \in {"EQUAL", "MINOR_DOWNGRADE"})
    ELSE IF mode = "hybrid"
       THEN Return(comparison \in {"EQUAL", "MINOR_UPGRADE",
                                   "MINOR_DOWNGRADE"})
    ELSE Raise("ValueError")

(***************************************************************************)
(* Schema drift detector: src/core_engine/versioning/schema_diff.py        *)
(***************************************************************************)
\* a dict with no key at all
EmptyDict == [k \in {} |-> None]

\* d.get("fields", {})
GetFields(d) == IF "fields" \in DOMAIN d THEN d.fields ELSE EmptyDict

\* compare_contract_fields that appends to type_changes in both tests
compare_contract_fields_one_list(exp_contract, act_contract) ==
    LET expected_fields == GetFields(exp_contract)
        actual_fields == GetFields(act_contract)
        expected_set == DOMAIN expected_fields
        actual_set == DOMAIN actual_fields
    IN  [added_fields |-> actual_set \ expected_set,
         removed_fields |-> expected_set \ actual_set,
         type_changes |->
            {field \in expected_set \cap actual_set :
                \/ expected_fields[field].type # actual_fields[field].type
                \/ expected_fields[field].required
                       # actual_fields[field].required},
         required_changes |-> {}]

\* compare_contract_fields that lists every shared field the baseline
\* requires, changed or not
compare_contract_fields_required_listed(exp_contract, act_contract) ==
    LET expected_fields == GetFields(exp_contract)
        actual_fields == GetFields(act_contract)
        expected_set == DOMAIN expected_fields
        actual_set == DOMAIN actual_fields
    IN  [added_fields |-> actual_set \ expected_set,
         removed_fields |-> expected_set \ actual_set,
         type_changes |->
            {field \in expected_set \cap actual_set :
                expected_fields[field].type # actual_fields[field].type},
         required_changes |->
            {field \in expected_set \cap actual_set :
                expected_fields[field].required}]

compare_contract_fields(exp_contract, act_contract) ==
    LET expected_fields == GetFields(exp_contract)
        actual_fields == GetFields(act_contract)
        expected_set == DOMAIN expected_fields
        actual_set == DOMAIN actual_fields
    IN  [added_fields |-> actual_set \ expected_set,
         removed_fields |-> expected_set \ actual_set,
         type_changes |->
            {field \in expected_set \cap actual_set :
                expected_fields[field].type # actual_fields[field].type},
         required_changes |->
            {field \in expected_set \cap actual_set :
                expected_fields[field].required
                    # actual_fields[field].required}]

(***************************************************************************)
(* Impact classifier: src/core_engine/governance/impact_classifier.py      *)
(***************************************************************************)
Impact(tier, category, review, blocks) ==
    [impact_tier |-> tier, drift_category |-> category,
     requires_review |-> review, blocks_deployment |-> blocks]

\* "field_drift and field_drift[key]": a dict that is there and a list in
\* it that is not empty
DriftHas(drift, key) == drift # None /\ drift[key] # {}

\* classify_impact with the version rule ahead of the label rule
classify_impact_major_first(label, comparison, drift) ==
    IF comparison = "MAJOR_UPGRADE"
       THEN Impact(1, "MAJOR_VERSION_BREAK", TRUE, TRUE)
    ELSE IF label = "FIELD_BREAKING_CHANGE"
       THEN Impact(1, "BREAKING_SCHEMA_CHANGE", TRUE, TRUE)
    ELSE IF DriftHas(drift, "type_changes")
       THEN Impact(2, "TYPE_CHANGE", TRUE, FALSE)
    ELSE IF DriftHas(drift, "required_changes")
       THEN Impact(3, "REQUIRED_FLAG_CHANGE", TRUE, FALSE)
    ELSE IF DriftHas(drift, "added_fields")
       THEN Impact(4, "ADDITIVE_CHANGE", FALSE, FALSE)
    ELSE Impact(5, "NO_IMPACT", FALSE, FALSE)

\* classify_impact with the required-flag rule ahead of the type rule
classify_impact_required_first(label, comparison, drift) ==
    IF label = "FIELD_BREAKING_CHANGE"
       THEN Impact(1, "BREAKING_SCHEMA_CHANGE", TRUE, TRUE)
    ELSE IF comparison = "MAJOR_UPGRADE"
       THEN Impact(1, "MAJOR_VERSION_BREAK", TRUE, TRUE)
    ELSE IF DriftHas(drift, "required_changes")
       THEN Impact(3, "REQUIRED_FLAG_CHANGE", TRUE, FALSE)
    ELSE IF DriftHas(drift, "type_changes")
       THEN Impact(2, "TYPE_CHANGE", TRUE, FALSE)
    ELSE IF DriftHas(drift, "added_fields")
       THEN Impact(4, "ADDITIVE_CHANGE", FALSE, FALSE)
    ELSE Impact(5, "NO_IMPACT", FALSE, FALSE)

\* classify_impact without the MAJOR_UPGRADE rule
classify_impact_no_major_rule(label, comparison, drift) ==
    IF label = "FIELD_BREAKING_CHANGE"
       THEN Impact(1, "BREAKING_SCHEMA_CHANGE", TRUE, TRUE)
    ELSE IF DriftHas(drift, "type_changes")
       THEN Impact(2, "TYPE_CHANGE", TRUE, FALSE)
    ELSE IF DriftHas(drift, "required_changes")
       THEN Impact(3, "REQUIRED_FLAG_CHANGE", TRUE, FALSE)
    ELSE IF DriftHas(drift, "added_fields")
       THEN Impact(4, "ADDITIVE_CHANGE", FALSE, FALSE)
    ELSE Impact(5, "NO_IMPACT", FALSE, FALSE)

classify_impact(label, comparison, drift) ==
    IF label = "FIELD_BREAKING_CHANGE"
       THEN Impact(1, "BREAKING_SCHEMA_CHANGE", TRUE, TRUE)
    ELSE IF comparison = "MAJOR_UPGRADE"
       THEN Impact(1, "MAJOR_VERSION_BREAK", TRUE, TRUE)
    ELSE IF DriftHas(drift, "type_changes")
       THEN Impact(2, "TYPE_CHANGE", TRUE, FALSE)
    ELSE IF DriftHas(drift, "required_changes")
       THEN Impact(3, "REQUIRED_FLAG_CHANGE", TRUE, FALSE)
    ELSE IF DriftHas(drift, "added_fields")
       THEN Impact(4, "ADDITIVE_CHANGE", FALSE, FALSE)
    ELSE Impact(5, "NO_IMPACT", FALSE, FALSE)

(***************************************************************************)
(* CI/CD gate evaluator: src/core_engine/governance/cicd_gate.py           *)
(***************************************************************************)
Gate(status, approval, blocks, action) ==
    [gate_status |-> status, requires_manual_approval |-> approval,
     blocks_pipeline |-> blocks, action_required |-> action]

\* evaluate_cicd_gate without its final else: a tier outside 1..4 keeps
\* the values the locals were initialised with
evaluate_cicd_gate_no_else(impact_tier) ==
    IF impact_tier = 1
       THEN Gate("BLOCK", TRUE, TRUE,
                 "Schema Breaking Change - Deployment Blocked")
    ELSE IF impact_tier = 2
       THEN Gate("REVIEW_REQUIRED", TRUE, FALSE,
                 "Type Change - Manual Architecture Review Required")
    ELSE IF impact_tier = 3
       THEN Gate("WARNING", TRUE, FALSE,
                 "Required Flag Change - Review Recommended")
    ELSE IF impact_tier = 4
       THEN Gate("AUTO_APPROVE", FALSE, FALSE,
                 "Additive Compatible Change - Auto Approved")
    ELSE Gate("ALLOW", FALSE, FALSE, "")

evaluate_cicd_gate(impact_tier) ==
    IF impact_tier = 1
       THEN Gate("BLOCK", TRUE, TRUE,
                 "Schema Breaking Change - Deployment Blocked")
    ELSE IF impact_tier = 2
       THEN Gate("REVIEW_REQUIRED", TRUE, FALSE,
                 "Type Change - Manual Architecture Review Required")
    ELSE IF impact_tier = 3
       THEN Gate("WARNING", TRUE, FALSE,
                 "Required Flag Change - Review Recommended")
    ELSE IF impact_tier = 4
       THEN Gate("AUTO_APPROVE", FALSE, FALSE,
                 "Additive Compatible Change - Auto Approved")
    ELSE Gate("NO_ACTION", FALSE, FALSE, "No Compatibility Impact")

(***************************************************************************)
(* The values the inputs are drawn from.                                   *)
(***************************************************************************)
ComparisonResults ==
    {"EQUAL", "MINOR_UPGRADE", "MAJOR_UPGRADE", "MINOR_DOWNGRADE",
     "MAJOR_DOWNGRADE"}

RecognizedModes ==
    {"strict", "forward_minor", "backward_minor", "hybrid", "override"}
\* mode strings of a policy file that names no recognized mode
UnknownModes == {"lenient", "STRICT"}
ModeStrings == RecognizedModes \cup UnknownModes

DecisionLabels ==
    {"PASS", "PASS_WITH_FORWARD_COMPAT", "SOFT_PASS_DRIFT", "HARD_FAIL",
     "FIELD_BREAKING_CHANGE"}

\* the version strings compare_versions accepts
AcceptedVersions == {s \in StringsUpTo(MaxLen) : Unpacks(s)}

FieldNames == 1..NumFields
Descriptors == [type : {"int", "string"}, required : BOOLEAN]
\* every fields mapping over the given field names
MappingsOver(names) == UNION {[S -> Descriptors] : S \in SUBSET names}
\* documents: with a fields mapping, with other keys only, empty
DocumentsOver(names) ==
    {[fields |-> m] : m \in MappingsOver(names)}
        \cup {[version |-> <<"1", ".", "0">>], EmptyDict}
Documents == DocumentsOver(FieldNames)

\* every FieldDrift-shaped record, and no drift at all
DriftRecords ==
    [added_fields : SUBSET FieldNames, removed_fields : SUBSET FieldNames,
     type_changes : SUBSET FieldNames, required_changes : SUBSET FieldNames]

\* the pipeline flows are idle while a function is applied on its own
RunIdle ==
    /\ policy_exists = FALSE /\ contract_exists = FALSE
    /\ expected_version = <<>>
    /\ compatibility_mode = "" /\ execution_profile = ""
    /\ baseline_contract = None /\ contract = None
    /\ compatibility_decision = None
    /\ reports = <<>> /\ log = <<>> /\ exit_code = -1

\* the report directory does not exist
NoDirectory == [exists |-> FALSE, files |-> <<>>]
\* the report directory as os.makedirs leaves it
EmptyDirectory == [exists |-> TRUE, files |-> <<>>]

\* no call of write_compatibility_report is studied on its own
AuditIdle ==
    /\ clock = 0 /\ report_directory = NoDirectory /\ writers = <<>>

\* strftime with a format that stops at the minute, a minute being two
\* seconds long
strftime_minutes(now) == now \div (2 * TicksPerSecond)

\* datetime.strftime("%Y%m%d_%H%M%S"): the time cut to the second
strftime(now) == now \div TicksPerSecond

\* os.path.join(report_directory, f"compatibility_report_{timestamp}.json")
Filepath(timestamp) ==
    [directory |-> "reports", prefix |-> "compatibility_report_",
     timestamp |-> timestamp, extension |-> ".json"]

\* open(filepath, "w") and json.dump: the file is created or replaced
WriteFile(files, filepath, report_data) ==
    [p \in DOMAIN files \cup {filepath} |->
        IF p = filepath THEN report_data ELSE files[p]]

(***************************************************************************)
(* compare_versions applied to any two strings.                            *)
(***************************************************************************)
InitCompare ==
    /\ pc = "call"
    /\ args \in [contract_version : StringsUpTo(MaxLen),
                  expected_version : StringsUpTo(MaxLen)]
    /\ result = None
    /\ RunIdle /\ AuditIdle

CallCompare ==
    /\ pc = "call"
    /\ result' = compare_versions(args.contract_version,
                                   args.expected_version)
    /\ pc' = "returned"
    /\ UNCHANGED <<args, auditvars, runvars>>

NextCompare == CallCompare
SpecCompare == InitCompare /\ [][NextCompare]_vars

(***************************************************************************)
(* Steps [6]-[7] of the orchestrator on their own: compare_versions, then  *)
(* the policy evaluator on its result.                                     *)
(***************************************************************************)
InitPolicy ==
    /\ pc = "call"
    /\ args \in [contract_version : AcceptedVersions,
                 expected_version : AcceptedVersions,
                 mode : ModeStrings]
    /\ result = None
    /\ RunIdle /\ AuditIdle

\* the comparison of the versions in args
Compared == compare_versions(args.contract_version,
                             args.expected_version).value

CallPolicy ==
    /\ pc = "call"
    /\ result' = [comparison_result |-> Compared,
                  is_allowed |-> evaluate_compatibility(Compared, args.mode)]
    /\ pc' = "returned"
    /\ UNCHANGED <<args, auditvars, runvars>>

CallPolicyP3 ==
    /\ pc = "call"
    /\ result' = [comparison_result |-> Compared,
                  is_allowed |->
                      evaluate_compatibility_p3(Compared, args.mode)]
    /\ pc' = "returned_p3"
    /\ UNCHANGED <<args, auditvars, runvars>>

NextPolicy == CallPolicy \/ CallPolicyP3
SpecPolicy == InitPolicy /\ [][NextPolicy]_vars

(***************************************************************************)
(* compare_contract_fields applied to any two documents.                   *)
(***************************************************************************)
InitDiff ==
    /\ pc = "call"
    /\ args \in [expected_contract : Documents, actual_contract : Documents]
    /\ result = None
    /\ RunIdle /\ AuditIdle

CallDiff ==
    /\ pc = "call"
    /\ result' = Return(compare_contract_fields(args.expected_contract,
                                                args.actual_contract))
    /\ pc' = "returned"
    /\ UNCHANGED <<args, auditvars, runvars>>

NextDiff == CallDiff
SpecDiff == InitDiff /\ [][NextDiff]_vars

(***************************************************************************)
(* classify_impact applied to any label, comparison and drift.             *)
(***************************************************************************)
InitClassify ==
    /\ pc = "call"
    /\ args \in [decision_label : DecisionLabels,
                 comparison_result : ComparisonResults,
                 field_drift : DriftRecords \cup {None}]
    /\ result = None
    /\ RunIdle /\ AuditIdle

CallClassify ==
    /\ pc = "call"
    /\ result' = Return(classify_impact(args.decision_label,
                                        args.comparison_result,
                                        args.field_drift))
    /\ pc' = "returned"
    /\ UNCHANGED <<args, auditvars, runvars>>

NextClassify == CallClassify
SpecClassify == InitClassify /\ [][NextClassify]_vars

(***************************************************************************)
(* evaluate_cicd_gate applied to any tier, recognized or not.              *)
(***************************************************************************)
InitGate ==
    /\ pc = "call"
    /\ args \in [impact_tier : (0 - MaxTier)..MaxTier]
    /\ result = None
    /\ RunIdle /\ AuditIdle

CallGate ==
    /\ pc = "call"
    /\ result' = Return(evaluate_cicd_gate(args.impact_tier))
    /\ pc' = "returned"
    /\ UNCHANGED <<args, auditvars, runvars>>

NextGate == CallGate
SpecGate == InitGate /\ [][NextGate]_vars

(***************************************************************************)
(* Governance termination handler:                                         *)
(* src/core_engine/governance/termination.py                               *)
(***************************************************************************)
Line(message) == [msg |-> message]

\* raise SystemExit(exit_code): the exception that ends the calling flow
SystemExit(code) == [exception |-> "SystemExit", code |-> code]

\* terminate_pipeline that logs the no-rows lines whatever rows_started is
terminate_pipeline_rows_ignored(reason_message, code, rows_started) ==
    <<Line(reason_message),
      Line("PIPELINE TERMINATED BEFORE DATA PROCESSING"),
      Line("NO ROWS WERE PROCESSED"),
      [msg |-> "GOVERNANCE EXIT CODE", code |-> code]>>

\* what terminate_pipeline logs before it raises SystemExit(code)
terminate_pipeline(reason_message, code, rows_started) ==
    <<Line(reason_message)>>
        \o (IF ~rows_started
               THEN <<Line("PIPELINE TERMINATED BEFORE DATA PROCESSING"),
                      Line("NO ROWS WERE PROCESSED")>>
               ELSE <<>>)
        \o <<[msg |-> "GOVERNANCE EXIT CODE", code |-> code]>>

(***************************************************************************)
(* terminate_pipeline applied to any reason, exit code and rows_started.   *)
(***************************************************************************)
\* the reasons the orchestrator gives, the empty reason, and a reason that
\* reads like one of the handler's own lines
TerminationReasons ==
    {"Active contract file not found", "Policy file not found",
     "Compatibility enforcement failed (batch mode).",
     "Unknown execution profile", "", "NO ROWS WERE PROCESSED"}

InitTerminate ==
    /\ pc = "call"
    /\ args \in [reason_message : TerminationReasons,
                 exit_code : 0..MaxExitCode,
                 rows_started : BOOLEAN]
    /\ result = None
    /\ RunIdle /\ AuditIdle

\* the call: the log lines, then SystemExit, which nothing catches
CallTerminate ==
    /\ pc = "call"
    /\ log' = log \o terminate_pipeline(args.reason_message, args.exit_code,
                                        args.rows_started)
    /\ result' = SystemExit(args.exit_code)
    /\ exit_code' = result'.code
    /\ pc' = "exited"
    /\ UNCHANGED <<args, auditvars, policy_exists, contract_exists,
                   expected_version,
                   compatibility_mode, execution_profile, baseline_contract,
                   contract, compatibility_decision, reports>>

NextTerminate == CallTerminate
SpecTerminate == InitTerminate /\ [][NextTerminate]_vars

(***************************************************************************)
(* Decision orchestrator: src/pipelines/batch_pipeline.py                  *)
(***************************************************************************)
\* "if d:" on a dict or None
Truthy(d) == d # None /\ DOMAIN d # {}

\* step [9], the version-based label
VersionLabel(allowed, comparison, mode) ==
    IF ~allowed THEN "HARD_FAIL"
    ELSE IF comparison = "EXACT_MATCH" THEN "PASS"
    ELSE IF mode = "override" THEN "SOFT_PASS_DRIFT"
    ELSE "PASS_WITH_FORWARD_COMPAT"

\* breaking_changes that looks at removed fields only
BreakingChanges_removed_only(drift) ==
    /\ drift # None
    /\ drift.removed_fields # {}

\* breaking_changes that counts an added field as breaking
BreakingChanges_any_drift(drift) ==
    /\ drift # None
    /\ \/ drift.added_fields # {}
       \/ drift.removed_fields # {}
       \/ drift.type_changes # {}
       \/ drift.required_changes # {}

\* breaking_changes that leaves required-flag changes to the classifier
BreakingChanges_no_required(drift) ==
    /\ drift # None
    /\ \/ drift.removed_fields # {}
       \/ drift.type_changes # {}

\* step [9b], breaking_changes
BreakingChanges(drift) ==
    /\ drift # None
    /\ \/ drift.removed_fields # {}
       \/ drift.type_changes # {}
       \/ drift.required_changes # {}

\* Severity without the SOFT_PASS_DRIFT branch: the label falls through to
\* the final else
Severity_no_warning(label) ==
    IF label \in {"FIELD_BREAKING_CHANGE", "HARD_FAIL"}
       THEN [severity |-> "CRITICAL", drift_detected |-> TRUE]
    ELSE IF label = "PASS_WITH_FORWARD_COMPAT"
       THEN [severity |-> "INFO", drift_detected |-> TRUE]
    ELSE [severity |-> "INFO", drift_detected |-> FALSE]

\* step [10], severity and drift_detected
Severity(label) ==
    IF label \in {"FIELD_BREAKING_CHANGE", "HARD_FAIL"}
       THEN [severity |-> "CRITICAL", drift_detected |-> TRUE]
    ELSE IF label = "SOFT_PASS_DRIFT"
       THEN [severity |-> "WARNING", drift_detected |-> TRUE]
    ELSE IF label = "PASS_WITH_FORWARD_COMPAT"
       THEN [severity |-> "INFO", drift_detected |-> TRUE]
    ELSE [severity |-> "INFO", drift_detected |-> FALSE]

\* step [8], field_drift
FieldDrift(baseline, candidate) ==
    IF Truthy(baseline)
       THEN compare_contract_fields(baseline, candidate)
       ELSE None

\* steps [8]-[11]: the governance record, once steps [6] and [7] returned
\* (its timestamp, time.time(), is read by nothing and is left out)
GovernanceRecord(comparison, allowed, baseline, candidate, ev, mode, profile) ==
    LET drift == FieldDrift(baseline, candidate)
        breaking == BreakingChanges(drift)
        label == IF breaking THEN "FIELD_BREAKING_CHANGE"
                 ELSE VersionLabel(allowed, comparison, mode)
        impact == classify_impact(label, comparison, drift)
    IN  [expected_version |-> ev,
         contract_version |-> candidate.version,
         comparison_result |-> comparison,
         compatibility_mode |-> mode,
         execution_profile |-> profile,
         allowed |-> IF breaking THEN FALSE ELSE allowed,
         decision |-> label,
         severity |-> Severity(label).severity,
         drift_detected |-> Severity(label).drift_detected,
         field_drift |-> drift,
         impact_tier |-> impact.impact_tier,
         drift_category |-> impact.drift_category,
         requires_review |-> impact.requires_review,
         blocks_deployment |-> impact.blocks_deployment,
         cicd_gate |-> evaluate_cicd_gate(impact.impact_tier)]

\* the version strings found in policy and contract files: MAJOR.MINOR
\* over the digits, and one string that is no version
VersionStrings == {<<a, ".", b>> : a, b \in Digits} \cup {<<"1">>}
ExecutionProfiles == {"batch", "streaming", "realtime"}
RegistryFieldNames == 1..RegistryFields
BaselineDocuments == DocumentsOver(RegistryFieldNames)
ContractDocuments ==
    {[version |-> v, fields |-> m] :
        v \in VersionStrings, m \in MappingsOver(RegistryFieldNames)}
    \cup {[version |-> v] : v \in VersionStrings}

Init ==
    /\ pc = "start"
    /\ args = None /\ result = None
    /\ policy_exists \in BOOLEAN /\ contract_exists \in BOOLEAN
    /\ expected_version = <<>>
    /\ compatibility_mode = "" /\ execution_profile = ""
    /\ baseline_contract = None /\ contract = None
    /\ compatibility_decision = None
    /\ reports = <<>>
    /\ log = <<Line("PIPELINE EXECUTION START")>>
    /\ exit_code = -1
    /\ clock = 0 /\ writers = <<>>
    /\ report_directory \in {NoDirectory, EmptyDirectory}

\* Validate that looks for the active contract file only
Validate_contract_only ==
    /\ pc = "start"
    /\ IF ~contract_exists
          THEN /\ log' = log \o terminate_pipeline(
                            "Active contract file not found", 1, FALSE)
               /\ exit_code' = 1
               /\ pc' = "terminated"
       ELSE /\ pc' = "validated"
            /\ UNCHANGED <<log, exit_code>>
    /\ UNCHANGED <<funvars, auditvars, policy_exists, contract_exists,
                   expected_version,
                   compatibility_mode, execution_profile, baseline_contract,
                   contract, compatibility_decision, reports>>

\* [2] Infrastructure Validation
Validate ==
    /\ pc = "start"
    /\ IF ~contract_exists
          THEN /\ log' = log \o terminate_pipeline(
                            "Active contract file not found", 1, FALSE)
               /\ exit_code' = 1
               /\ pc' = "terminated"
       ELSE IF ~policy_exists
          THEN /\ log' = log \o terminate_pipeline(
                            "Policy file not found", 1, FALSE)
               /\ exit_code' = 1
               /\ pc' = "terminated"
       ELSE /\ pc' = "validated"
            /\ UNCHANGED <<log, exit_code>>
    /\ UNCHANGED <<funvars, auditvars, policy_exists, contract_exists,
                   expected_version,
                   compatibility_mode, execution_profile, baseline_contract,
                   contract, compatibility_decision, reports>>

\* [3] Load Policy
LoadPolicy ==
    /\ pc = "validated"
    /\ expected_version' \in VersionStrings
    /\ compatibility_mode' \in ModeStrings
    /\ execution_profile' \in ExecutionProfiles
    /\ log' = log \o <<Line("Expected Version"), Line("Compatibility Mode"),
                       Line("Execution Profile")>>
    /\ pc' = "policy_loaded"
    /\ UNCHANGED <<funvars, auditvars, policy_exists, contract_exists,
                   baseline_contract, contract, compatibility_decision,
                   reports, exit_code>>

\* [4] Load Baseline Contract
LoadBaseline ==
    /\ pc = "policy_loaded"
    /\ \/ /\ baseline_contract' = None
          /\ log' = Append(log, Line("Baseline contract not found. Field comparison skipped."))
       \/ /\ baseline_contract' \in BaselineDocuments
          /\ log' = log
    /\ pc' = "baseline_loaded"
    /\ UNCHANGED <<funvars, auditvars, policy_exists, contract_exists,
                   expected_version,
                   compatibility_mode, execution_profile, contract,
                   compatibility_decision, reports, exit_code>>

\* [5] Load Active Contract
LoadContract ==
    /\ pc = "baseline_loaded"
    /\ contract' \in ContractDocuments
    /\ log' = Append(log, Line("Contract Version"))
    /\ pc' = "contract_loaded"
    /\ UNCHANGED <<funvars, auditvars, policy_exists, contract_exists,
                   expected_version,
                   compatibility_mode, execution_profile, baseline_contract,
                   compatibility_decision, reports, exit_code>>

\* [6]-[11] version comparison, policy evaluation, drift detection,
\* decision, severity, impact, gate and the governance record; a ValueError
\* of step [6] or [7] is caught nowhere: the interpreter prints the
\* traceback and the process ends with status 1
Evaluate ==
    /\ pc = "contract_loaded"
    /\ LET compared == compare_versions(contract.version, expected_version)
           allowed == evaluate_compatibility(compared.value,
                                             compatibility_mode)
       IN  IF "exception" \in DOMAIN compared
              THEN /\ log' = Append(log, Line("Traceback: ValueError"))
                   /\ exit_code' = 1
                   /\ pc' = "crashed"
                   /\ UNCHANGED compatibility_decision
           ELSE IF "exception" \in DOMAIN allowed
              THEN /\ log' = log \o <<Line("Version Comparison Result"),
                                       Line("Traceback: ValueError")>>
                   /\ exit_code' = 1
                   /\ pc' = "crashed"
                   /\ UNCHANGED compatibility_decision
              ELSE /\ compatibility_decision' =
                        GovernanceRecord(compared.value, allowed.value,
                                         baseline_contract, contract,
                                         expected_version,
                                         compatibility_mode,
                                         execution_profile)
                   /\ log' = log \o <<Line("Version Comparison Result"),
                                       Line("Compatibility Decision")>>
                   /\ pc' = "decided"
                   /\ UNCHANGED exit_code
    /\ UNCHANGED <<funvars, auditvars, policy_exists, contract_exists,
                   expected_version,
                   compatibility_mode, execution_profile, baseline_contract,
                   contract, reports>>

\* write_compatibility_report by the one run that uses the report
\* directory: the directory is there or is made, and the file is written
\* under the name of the current second
write_compatibility_report(directory, report_data, now) ==
    [exists |-> TRUE,
     files |-> WriteFile(directory.files, Filepath(strftime(now)),
                         report_data)]

\* WriteReport that keeps the record of a denied evaluation for after the
\* enforcement, and so never writes it
WriteReport_allowed_only ==
    /\ pc = "decided"
    /\ IF compatibility_decision.allowed
          THEN /\ report_directory' = write_compatibility_report(
                      report_directory, compatibility_decision, clock)
               /\ reports' = Append(reports, compatibility_decision)
               /\ log' = Append(log, Line("Compatibility Report Written"))
          ELSE UNCHANGED <<report_directory, reports, log>>
    /\ pc' = "reported"
    /\ UNCHANGED <<funvars, clock, writers, policy_exists, contract_exists,
                   expected_version, compatibility_mode, execution_profile,
                   baseline_contract, contract, compatibility_decision,
                   exit_code>>

\* [11] write_compatibility_report
WriteReport ==
    /\ pc = "decided"
    /\ report_directory' = write_compatibility_report(
           report_directory, compatibility_decision, clock)
    /\ reports' = Append(reports, compatibility_decision)
    /\ log' = Append(log, Line("Compatibility Report Written"))
    /\ pc' = "reported"
    /\ UNCHANGED <<funvars, clock, writers, policy_exists, contract_exists,
                   expected_version, compatibility_mode, execution_profile,
                   baseline_contract, contract, compatibility_decision,
                   exit_code>>

\* the log line of step [11b]
GateLog ==
    IF compatibility_decision.cicd_gate.blocks_pipeline
       THEN <<Line("CI/CD Gate Blocked Deployment.")>>
       ELSE <<>>

\* Enforce that treats batch as it treats streaming: a denied evaluation is
\* logged and the run continues
Enforce_batch_continues ==
    /\ pc = "reported"
    /\ IF ~compatibility_decision.allowed
            /\ execution_profile \notin {"batch", "streaming"}
          THEN /\ log' = log \o GateLog \o terminate_pipeline(
                     "Unknown execution profile", 2, FALSE)
               /\ exit_code' = 2
               /\ pc' = "terminated"
       ELSE /\ log' = log \o GateLog
                 \o (IF ~compatibility_decision.allowed
                        THEN <<Line("Streaming profile detected. Compatibility drift logged but pipeline continues.")>>
                        ELSE <<>>)
                 \o <<Line("PIPELINE EXECUTION END")>>
            /\ exit_code' = 0
            /\ pc' = "done"
    /\ UNCHANGED <<funvars, auditvars, policy_exists, contract_exists,
                   expected_version,
                   compatibility_mode, execution_profile, baseline_contract,
                   contract, compatibility_decision, reports>>

\* Enforce without the streaming branch: every denied evaluation that is
\* not under batch ends as an unknown profile does
Enforce_streaming_terminates ==
    /\ pc = "reported"
    /\ IF ~compatibility_decision.allowed /\ execution_profile = "batch"
          THEN /\ log' = log \o GateLog \o terminate_pipeline(
                     "Compatibility enforcement failed (batch mode).",
                     2, FALSE)
               /\ exit_code' = 2
               /\ pc' = "terminated"
       ELSE IF ~compatibility_decision.allowed
          THEN /\ log' = log \o GateLog \o terminate_pipeline(
                     "Unknown execution profile", 2, FALSE)
               /\ exit_code' = 2
               /\ pc' = "terminated"
       ELSE /\ log' = log \o GateLog \o <<Line("PIPELINE EXECUTION END")>>
            /\ exit_code' = 0
            /\ pc' = "done"
    /\ UNCHANGED <<funvars, auditvars, policy_exists, contract_exists,
                   expected_version,
                   compatibility_mode, execution_profile, baseline_contract,
                   contract, compatibility_decision, reports>>

\* [11b]-[12] Profile-Based Enforcement, and the end of the run
Enforce ==
    /\ pc = "reported"
    /\ IF ~compatibility_decision.allowed /\ execution_profile = "batch"
          THEN /\ log' = log \o GateLog \o terminate_pipeline(
                     "Compatibility enforcement failed (batch mode).",
                     2, FALSE)
               /\ exit_code' = 2
               /\ pc' = "terminated"
       ELSE IF ~compatibility_decision.allowed
               /\ execution_profile # "streaming"
          THEN /\ log' = log \o GateLog \o terminate_pipeline(
                     "Unknown execution profile", 2, FALSE)
               /\ exit_code' = 2
               /\ pc' = "terminated"
       ELSE /\ log' = log \o GateLog
                 \o (IF ~compatibility_decision.allowed
                        THEN <<Line("Streaming profile detected. Compatibility drift logged but pipeline continues.")>>
                        ELSE <<>>)
                 \o <<Line("PIPELINE EXECUTION END")>>
            /\ exit_code' = 0
            /\ pc' = "done"
    /\ UNCHANGED <<funvars, auditvars, policy_exists, contract_exists,
                   expected_version,
                   compatibility_mode, execution_profile, baseline_contract,
                   contract, compatibility_decision, reports>>

Next ==
    \/ Validate
    \/ LoadPolicy
    \/ LoadBaseline
    \/ LoadContract
    \/ Evaluate
    \/ WriteReport
    \/ Enforce

Spec == Init /\ [][Next]_vars

(***************************************************************************)
(* Governance audit writer: src/core_engine/governance/audit_writer.py     *)
(* Calls of write_compatibility_report, by one run after another or by     *)
(* runs at the same time, into one report directory.  Each statement of    *)
(* the function that touches the file system or the clock is a step the    *)
(* other calls interleave with.                                            *)
(***************************************************************************)
Writers == 1..NumWriters

\* the records handed to the writer
ReportData ==
    {[decision |-> "HARD_FAIL"], [decision |-> "PASS_WITH_FORWARD_COMPAT"]}

InitAudit ==
    /\ pc = "audit"
    /\ args = None /\ result = None
    /\ RunIdle
    /\ clock = 0
    /\ report_directory \in {NoDirectory, EmptyDirectory}
    /\ writers \in [Writers ->
                      {[pc |-> "call", report_data |-> d, now |-> -1,
                        result |-> None] : d \in ReportData}]

\* line 12: if not os.path.exists(report_directory)
CheckDirectory(w) ==
    /\ writers[w].pc = "call"
    /\ writers' = [writers EXCEPT ![w].pc =
                      IF report_directory.exists THEN "stamp"
                                                 ELSE "makedirs"]
    /\ UNCHANGED <<pc, funvars, runvars, clock, report_directory>>

\* line 13: os.makedirs(report_directory), which raises FileExistsError
\* when the directory has appeared since line 12
MakeDirs(w) ==
    /\ writers[w].pc = "makedirs"
    /\ IF report_directory.exists
          THEN /\ writers' = [writers EXCEPT
                                 ![w].pc = "raised",
                                 ![w].result = Raise("FileExistsError")]
               /\ UNCHANGED report_directory
          ELSE /\ report_directory' = EmptyDirectory
               /\ writers' = [writers EXCEPT ![w].pc = "stamp"]
    /\ UNCHANGED <<pc, funvars, runvars, clock>>

\* line 15: datetime.utcnow()
Stamp(w) ==
    /\ writers[w].pc = "stamp"
    /\ writers' = [writers EXCEPT ![w].pc = "open", ![w].now = clock]
    /\ UNCHANGED <<pc, funvars, runvars, clock, report_directory>>

\* lines 15-23: the file name, the write, and the path returned
WriteAndReturn(w) ==
    /\ writers[w].pc = "open"
    /\ LET filepath == Filepath(strftime(writers[w].now))
       IN  /\ report_directory' =
                 [report_directory EXCEPT
                     !.files = WriteFile(@, filepath,
                                         writers[w].report_data)]
           /\ writers' = [writers EXCEPT ![w].pc = "returned",
                                         ![w].result = Return(filepath)]
    /\ UNCHANGED <<pc, funvars, runvars, clock>>

\* time passes
Tick ==
    /\ clock < MaxClock
    /\ clock' = clock + 1
    /\ UNCHANGED <<pc, funvars, runvars, report_directory, writers>>

NextAudit ==
    \/ \E w \in Writers : CheckDirectory(w)
    \/ \E w \in Writers : MakeDirs(w)
    \/ \E w \in Writers : Stamp(w)
    \/ \E w \in Writers : WriteAndReturn(w)
    \/ Tick

SpecAudit == InitAudit /\ [][NextAudit]_vars

(***************************************************************************)
(* What the specification says of a version string, stated on the string   *)
(* itself and not through split and int.                                   *)
(***************************************************************************)
DotPositions(s) == {i \in 1..Len(s) : s[i] = "."}
DotOf(s) == CHOOSE i \in DotPositions(s) : TRUE
MajorText(s) == SubSeq(s, 1, DotOf(s) - 1)
MinorText(s) == SubSeq(s, DotOf(s) + 1, Len(s))

DigitsOnly(tok) == tok # <<>> /\ \A i \in 1..Len(tok) : tok[i] \in Digits
\* "-0", "-00": a signed literal of the integer zero
SignedZero(tok) ==
    /\ Len(tok) >= 2 /\ tok[1] = "-"
    /\ \A i \in 2..Len(tok) : tok[i] = "0"
NonNegativeInteger(tok) == DigitsOnly(tok) \/ SignedZero(tok)

\* exactly two dot-separated components, both non-negative integers
WellFormed(s) ==
    /\ Cardinality(DotPositions(s)) = 1
    /\ NonNegativeInteger(MajorText(s))
    /\ NonNegativeInteger(MinorText(s))

NumberOf(tok) == IF DigitsOnly(tok) THEN Decimal(tok) ELSE 0
MajorOf(s) == NumberOf(MajorText(s))
MinorOf(s) == NumberOf(MinorText(s))

\* a decision was computed in this run
Decided == compatibility_decision # None

\* the compatibility table of the data model
AllowedBy(mode) ==
    IF mode = "strict" THEN {"EQUAL"}
    ELSE IF mode = "forward_minor" THEN {"EQUAL", "MINOR_UPGRADE"}
    ELSE IF mode = "backward_minor" THEN {"EQUAL", "MINOR_DOWNGRADE"}
    ELSE IF mode = "hybrid"
       THEN {"EQUAL", "MINOR_UPGRADE", "MINOR_DOWNGRADE"}
    ELSE ComparisonResults

\* a drift with a removed field, a type change or a required change
HasBreaking(drift) ==
    \/ drift.removed_fields # {}
    \/ drift.type_changes # {}
    \/ drift.required_changes # {}

(***************************************************************************)
(* Claims.                                                                 *)
(***************************************************************************)

\* C1: in every evaluation without breaking field drift the decision label
\* is the first match of: policy denies -> HARD_FAIL; comparison EQUAL ->
\* PASS; mode override -> SOFT_PASS_DRIFT; otherwise
\* PASS_WITH_FORWARD_COMPAT.  In particular equal versions that the mode
\* allows are labelled PASS.
C1_LabelPrecedence ==
    (Decided /\ ~BreakingChanges(compatibility_decision.field_drift))
        => compatibility_decision.decision =
              (IF ~compatibility_decision.allowed THEN "HARD_FAIL"
               ELSE IF compatibility_decision.comparison_result = "EQUAL"
                  THEN "PASS"
               ELSE IF compatibility_mode = "override"
                  THEN "SOFT_PASS_DRIFT"
               ELSE "PASS_WITH_FORWARD_COMPAT")

C3_StrictAllowsExactlyEqual ==
    (/\ pc = "returned"
     /\ args.mode = "strict"
     /\ WellFormed(args.contract_version)
     /\ WellFormed(args.expected_version))
        => result.is_allowed =
              Return(/\ MajorOf(args.contract_version)
                          = MajorOf(args.expected_version)
                     /\ MinorOf(args.contract_version)
                          = MinorOf(args.expected_version))

\* C4: for the modes forward_minor, backward_minor, hybrid and override
\* and each comparison result, the policy evaluator returns the boolean of
\* the compatibility table; none of the four is rejected as unknown.
C4_PolicyTable ==
    (/\ pc = "returned"
     /\ args.mode \in {"forward_minor", "backward_minor", "hybrid",
                       "override"})
        => result.is_allowed =
              Return(result.comparison_result \in AllowedBy(args.mode))

\* C5: for a mode string outside the five recognized values the policy
\* evaluator fails with an unknown-mode error, for every comparison result;
\* it returns neither true nor false.
C5_UnknownModeRaises ==
    (pc = "returned" /\ args.mode \notin RecognizedModes)
        => result.is_allowed = Raise("ValueError")

\* an unrecognized mode met with equal versions
C5_Witness ==
    /\ pc = "returned"
    /\ args.mode = "lenient"
    /\ result.comparison_result = "EQUAL"
    /\ result.is_allowed = Raise("ValueError")

\* C6: for well-formed versions compare returns MAJOR_UPGRADE or
\* MAJOR_DOWNGRADE when the majors differ, whatever the minors; with equal
\* majors it returns MINOR_UPGRADE, MINOR_DOWNGRADE or EQUAL by the minors.
C6_MajorThenMinor ==
    (/\ pc = "returned"
     /\ WellFormed(args.contract_version)
     /\ WellFormed(args.expected_version))
        => LET cmaj == MajorOf(args.contract_version)
               emaj == MajorOf(args.expected_version)
               cmin == MinorOf(args.contract_version)
               emin == MinorOf(args.expected_version)
           IN  /\ cmaj > emaj => result = Return("MAJOR_UPGRADE")
               /\ cmaj < emaj => result = Return("MAJOR_DOWNGRADE")
               /\ (cmaj = emaj /\ cmin > emin)
                     => result = Return("MINOR_UPGRADE")
               /\ (cmaj = emaj /\ cmin < emin)
                     => result = Return("MINOR_DOWNGRADE")
               /\ (cmaj = emaj /\ cmin = emin) => result = Return("EQUAL")

\* a greater major with a lesser minor
C6_Witness ==
    /\ pc = "returned"
    /\ WellFormed(args.contract_version)
    /\ WellFormed(args.expected_version)
    /\ MajorOf(args.contract_version) > MajorOf(args.expected_version)
    /\ MinorOf(args.contract_version) < MinorOf(args.expected_version)
    /\ result = Return("MAJOR_UPGRADE")

\* C7: compare fails with a parse error, and returns no classification,
\* whenever either string is not exactly two dot-separated non-negative
\* integers.
C7_MalformedRaises ==
    (/\ pc = "returned"
     /\ ~(WellFormed(args.contract_version)
            /\ WellFormed(args.expected_version)))
        => result = Raise("ValueError")

\* d.fields.keys, none when d has no fields mapping
FieldKeys(d) == IF "fields" \in DOMAIN d THEN DOMAIN d.fields ELSE {}

\* C8: diff returns added_fields = candidate names not in baseline,
\* removed_fields = baseline names not in candidate, type_changes = the
\* shared names whose type differs, required_changes = the shared names
\* whose required flag differs; a missing fields mapping counts as empty
\* and raises nothing.
C8_DiffSets ==
    pc = "returned"
        => LET base == args.expected_contract
               cand == args.actual_contract
               shared == FieldKeys(base) \cap FieldKeys(cand)
           IN  result = Return(
                 [added_fields |-> FieldKeys(cand) \ FieldKeys(base),
                  removed_fields |-> FieldKeys(base) \ FieldKeys(cand),
                  type_changes |->
                     {n \in shared :
                         base.fields[n].type # cand.fields[n].type},
                  required_changes |->
                     {n \in shared :
                         base.fields[n].required
                             # cand.fields[n].required}])

\* a shared field whose required flag changed and whose type did not,
\* next to an added field
C8_Witness ==
    /\ pc = "returned"
    /\ result.value.required_changes # {}
    /\ result.value.type_changes = {}
    /\ result.value.added_fields # {}

\* C9: classify equals the first matching rule of: label
\* FIELD_BREAKING_CHANGE -> tier 1 BREAKING_SCHEMA_CHANGE; comparison
\* MAJOR_UPGRADE -> tier 1 MAJOR_VERSION_BREAK; drift with type_changes ->
\* tier 2; drift with required_changes -> tier 3; drift with added_fields
\* -> tier 4; otherwise tier 5.  Without drift the result is tier 5 unless
\* one of the first two rules matched.
C9_FirstMatchingRule ==
    pc = "returned"
        => LET label == args.decision_label
               comparison == args.comparison_result
               drift == args.field_drift
               present == drift # None
               r1 == label = "FIELD_BREAKING_CHANGE"
               r2 == comparison = "MAJOR_UPGRADE"
               r3 == present /\ drift.type_changes # {}
               r4 == present /\ drift.required_changes # {}
               r5 == present /\ drift.added_fields # {}
           IN  /\ r1 => result = Return(
                    Impact(1, "BREAKING_SCHEMA_CHANGE", TRUE, TRUE))
               /\ (~r1 /\ r2) => result = Return(
                    Impact(1, "MAJOR_VERSION_BREAK", TRUE, TRUE))
               /\ (~r1 /\ ~r2 /\ r3) => result = Return(
                    Impact(2, "TYPE_CHANGE", TRUE, FALSE))
               /\ (~r1 /\ ~r2 /\ ~r3 /\ r4) => result = Return(
                    Impact(3, "REQUIRED_FLAG_CHANGE", TRUE, FALSE))
               /\ (~r1 /\ ~r2 /\ ~r3 /\ ~r4 /\ r5) => result = Return(
                    Impact(4, "ADDITIVE_CHANGE", FALSE, FALSE))
               /\ (~r1 /\ ~r2 /\ ~r3 /\ ~r4 /\ ~r5) => result = Return(
                    Impact(5, "NO_IMPACT", FALSE, FALSE))
               /\ (~present /\ ~r1 /\ ~r2) => result.value.impact_tier = 5

\* a drift with type, required and added changes at once under a passing
\* label: the type rule wins
C9_Witness ==
    /\ pc = "returned"
    /\ args.decision_label = "PASS"
    /\ args.comparison_result = "EQUAL"
    /\ args.field_drift # None
    /\ args.field_drift.type_changes # {}
    /\ args.field_drift.required_changes # {}
    /\ args.field_drift.added_fields # {}
    /\ result.value.impact_tier = 2

\* C10: every evaluation whose final label is FIELD_BREAKING_CHANGE has
\* impact tier 1, drift_category BREAKING_SCHEMA_CHANGE (also on a major
\* upgrade), requires_review, blocks_deployment and gate status BLOCK.
C10_BreakingIsTierOne ==
    (Decided /\ compatibility_decision.decision = "FIELD_BREAKING_CHANGE")
        => /\ compatibility_decision.impact_tier = 1
           /\ compatibility_decision.drift_category
                 = "BREAKING_SCHEMA_CHANGE"
           /\ compatibility_decision.requires_review = TRUE
           /\ compatibility_decision.blocks_deployment = TRUE
           /\ compatibility_decision.cicd_gate.gate_status = "BLOCK"

\* a breaking field change met with a major upgrade
C10_Witness ==
    /\ Decided
    /\ compatibility_decision.decision = "FIELD_BREAKING_CHANGE"
    /\ compatibility_decision.comparison_result = "MAJOR_UPGRADE"
    /\ compatibility_decision.drift_category = "BREAKING_SCHEMA_CHANGE"
    /\ compatibility_decision.cicd_gate.gate_status = "BLOCK"

\* C11: the gate evaluator is total.  Tier 1 gives BLOCK with manual
\* approval and blocks_pipeline; tier 2 REVIEW_REQUIRED with approval;
\* tier 3 WARNING with approval; tier 4 AUTO_APPROVE without approval;
\* tier 5 and every other value give NO_ACTION without approval.  No input
\* raises, and blocks_pipeline is true for tier 1 only.
C11_GateTotal ==
    pc = "returned"
        => LET tier == args.impact_tier
               status == IF tier = 1 THEN "BLOCK"
                         ELSE IF tier = 2 THEN "REVIEW_REQUIRED"
                         ELSE IF tier = 3 THEN "WARNING"
                         ELSE IF tier = 4 THEN "AUTO_APPROVE"
                         ELSE "NO_ACTION"
           IN  /\ "value" \in DOMAIN result
               /\ result.value.gate_status = status
               /\ result.value.requires_manual_approval
                     = (tier \in {1, 2, 3})
               /\ result.value.blocks_pipeline = (tier = 1)

\* a tier that is none of 1..5 was answered with NO_ACTION
C11_Witness ==
    /\ pc = "returned"
    /\ args.impact_tier \notin 1..5
    /\ result.value.gate_status = "NO_ACTION"
    /\ ~result.value.blocks_pipeline

\* C12: in every governance record severity and drift_detected follow the
\* final label: FIELD_BREAKING_CHANGE or HARD_FAIL -> CRITICAL, true;
\* SOFT_PASS_DRIFT -> WARNING, true; PASS_WITH_FORWARD_COMPAT -> INFO,
\* true; PASS -> INFO, false.  drift_detected is false exactly when the
\* label is PASS.
C12_SeverityByLabel ==
    /\ Severity("PASS") = [severity |-> "INFO", drift_detected |-> FALSE]
    /\ Decided
         => LET label == compatibility_decision.decision
                severity == compatibility_decision.severity
                drift_detected == compatibility_decision.drift_detected
            IN  /\ label \in DecisionLabels
                /\ label \in {"FIELD_BREAKING_CHANGE", "HARD_FAIL"}
                     => severity = "CRITICAL" /\ drift_detected
                /\ label = "SOFT_PASS_DRIFT"
                     => severity = "WARNING" /\ drift_detected
                /\ label = "PASS_WITH_FORWARD_COMPAT"
                     => severity = "INFO" /\ drift_detected
                /\ label = "PASS"
                     => severity = "INFO" /\ ~drift_detected
                /\ ~drift_detected <=> label = "PASS"

\* a record labelled SOFT_PASS_DRIFT carries WARNING and drift_detected
C12_Witness ==
    /\ Decided
    /\ compatibility_decision.decision = "SOFT_PASS_DRIFT"
    /\ compatibility_decision.severity = "WARNING"
    /\ compatibility_decision.drift_detected

\* the process has ended and the last thing logged is the termination
\* handler's exit-code line for that status
EndedThroughHandler(code) ==
    /\ exit_code = code
    /\ Len(log) >= 2
    /\ log[Len(log)] = [msg |-> "GOVERNANCE EXIT CODE", code |-> code]

\* the handler logged the reason before its exit-code line
HandlerLogged(reason_message) ==
    \E i \in 1..Len(log) : log[i] = Line(reason_message)

\* the run logged its normal end
ReachedNormalEnd ==
    \E i \in 1..Len(log) : log[i] = Line("PIPELINE EXECUTION END")

\* C13: under profile batch, an evaluation whose final allowed value is
\* false (HARD_FAIL or FIELD_BREAKING_CHANGE) ends through the termination
\* handler with exit code 2 and never reaches the normal end of the run.
C13_BatchDeniedExitsTwo ==
    (Decided /\ execution_profile = "batch"
             /\ ~compatibility_decision.allowed)
        => /\ compatibility_decision.decision
                 \in {"HARD_FAIL", "FIELD_BREAKING_CHANGE"}
           /\ pc \in {"decided", "reported", "terminated"}
           /\ ~ReachedNormalEnd
           /\ exit_code \in {-1, 2}
           /\ exit_code = -1 <=> pc # "terminated"
           /\ pc = "terminated"
                => /\ EndedThroughHandler(2)
                   /\ HandlerLogged(
                        "Compatibility enforcement failed (batch mode).")

\* a batch run denied by the policy has ended with status 2
C13_Witness ==
    /\ pc = "terminated"
    /\ exit_code = 2
    /\ execution_profile = "batch"
    /\ Decided
    /\ compatibility_decision.decision = "HARD_FAIL"
    /\ ~compatibility_decision.allowed

\* the termination handler logged its exit-code line
HandlerInvoked ==
    \E i \in 1..Len(log) : log[i].msg = "GOVERNANCE EXIT CODE"

\* C14: under profile streaming, an evaluation whose final allowed value is
\* false does not invoke the termination handler: the run reaches its normal
\* end with exit status 0, and the persisted audit record carries
\* allowed=false with the failing decision label.
C14_StreamingDeniedContinues ==
    (Decided /\ execution_profile = "streaming"
             /\ ~compatibility_decision.allowed)
        => /\ ~HandlerInvoked
           /\ pc \in {"decided", "reported", "done"}
           /\ exit_code \in {-1, 0}
           /\ exit_code = 0 <=> pc = "done"
           /\ pc = "done" => ReachedNormalEnd
           /\ pc \in {"reported", "done"}
                => /\ Len(reports) = 1
                   /\ reports[1].allowed = FALSE
                   /\ reports[1].decision
                         \in {"HARD_FAIL", "FIELD_BREAKING_CHANGE"}
                   /\ reports[1].decision
                         = compatibility_decision.decision

\* a streaming run with a breaking field change reached its normal end
C14_Witness ==
    /\ pc = "done"
    /\ exit_code = 0
    /\ execution_profile = "streaming"
    /\ Len(reports) = 1
    /\ reports[1].decision = "FIELD_BREAKING_CHANGE"
    /\ ~reports[1].allowed

\* C15: whenever the execution profile is neither batch nor streaming, the
\* run is terminated as a configuration error with exit code 2, whether the
\* evaluation's allowed value is true or false: it never reaches its normal
\* end.
C15_UnknownProfileExitsTwo ==
    (Decided /\ execution_profile \notin {"batch", "streaming"})
        => /\ pc # "done"
           /\ ~ReachedNormalEnd
           /\ exit_code \in {-1, 2}
           /\ pc = "terminated" => EndedThroughHandler(2)

\* C16: a run configured with an unknown compatibility mode ends through the
\* termination handler with exit code 2: the handler's reason and exit-code
\* lines are logged before the process ends, and the process ends by no
\* other path.  (Stated for runs whose two versions parse, so that the mode
\* is the only configuration error.)
C16_UnknownModeExitsTwo ==
    (/\ exit_code # -1
     /\ compatibility_mode \in UnknownModes
     /\ "value" \in DOMAIN compare_versions(contract.version,
                                            expected_version))
        => /\ pc = "terminated"
           /\ HandlerInvoked
           /\ EndedThroughHandler(2)

\* C17: when the active contract file or the policy file is absent, the run
\* ends through the termination handler with exit code 1 before any
\* governance step runs: no document is loaded, no version comparison,
\* policy evaluation or drift detection takes place and no audit record is
\* written in that run.
C17_MissingFileExitsOne ==
    (~contract_exists \/ ~policy_exists)
        => /\ pc \in {"start", "terminated"}
           /\ expected_version = <<>> /\ compatibility_mode = ""
           /\ baseline_contract = None /\ contract = None
           /\ compatibility_decision = None
           /\ reports = <<>>
           /\ ~ReachedNormalEnd
           /\ \A i \in 1..Len(log) :
                log[i].msg \notin {"Version Comparison Result",
                                   "Compatibility Decision",
                                   "Compatibility Report Written"}
           /\ exit_code \in {-1, 1}
           /\ exit_code = 1 <=> pc = "terminated"
           /\ pc = "terminated"
                => /\ EndedThroughHandler(1)
                   /\ HandlerLogged(IF ~contract_exists
                                       THEN "Active contract file not found"
                                       ELSE "Policy file not found")

\* the contract file is there, the policy file is not, and the run has
\* ended with status 1
C17_Witness ==
    /\ pc = "terminated"
    /\ contract_exists /\ ~policy_exists
    /\ exit_code = 1
    /\ HandlerLogged("Policy file not found")
    /\ compatibility_decision = None

\* C18: terminate(reason, exitCode, rowsStarted) never returns normally: it
\* ends the calling flow with exactly the supplied exit code, after logging
\* the reason and the exit code; it logs the 'terminated before data
\* processing' and 'no rows processed' lines if and only if rowsStarted is
\* false.
C18_TerminateNeverReturns ==
    /\ pc \in {"call", "exited"}
    /\ pc = "exited"
         => LET no_rows ==
                    <<Line("PIPELINE TERMINATED BEFORE DATA PROCESSING"),
                      Line("NO ROWS WERE PROCESSED")>>
                last == [msg |-> "GOVERNANCE EXIT CODE",
                         code |-> args.exit_code]
            IN  /\ "value" \notin DOMAIN result
                /\ result.exception = "SystemExit"
                /\ result.code = args.exit_code
                /\ exit_code = args.exit_code
                /\ log[1] = Line(args.reason_message)
                /\ log[Len(log)] = last
                /\ ~args.rows_started
                     <=> (Len(log) = 4 /\ SubSeq(log, 2, 3) = no_rows)
                /\ args.rows_started <=> Len(log) = 2

\* rows had started: the handler logged the reason and the exit code only
C18_Witness ==
    /\ pc = "exited"
    /\ args.rows_started
    /\ args.exit_code = 2
    /\ exit_code = 2
    /\ Len(log) = 2

\* the call of writer w has returned a location
Persisted(w) == writers[w].pc = "returned"

\* the UTC second in which writer w read the clock
SecondOf(w) == writers[w].now \div TicksPerSecond

\* C19 as stated: once the audit writer has written a record to a
\* location, no later persist call by any run writes to that location; each
\* call returns a location that no other call into the same report
\* directory returned, and the file at that location holds the record the
\* call was given.
C19_LocationNeverReused ==
    \A w \in Writers :
        Persisted(w)
            => /\ \A v \in Writers \ {w} :
                    Persisted(v)
                        => writers[v].result.value
                              # writers[w].result.value
               /\ report_directory.files[writers[w].result.value]
                     = writers[w].report_data

\* C19, amended: persist calls that read the clock in different UTC seconds
\* return different locations, and the record a call has stored stays as
\* written for as long as no other call has read the clock in the same UTC
\* second; the location a call returns is a file of the report directory.
C19_DistinctSecondsDistinctLocations ==
    \A w \in Writers :
        Persisted(w)
            => LET filepath == writers[w].result.value
                   others == {v \in Writers \ {w} :
                                 writers[v].pc \in {"open", "returned"}}
               IN  /\ report_directory.exists
                   /\ filepath \in DOMAIN report_directory.files
                   /\ \A v \in others :
                        (Persisted(v) /\ SecondOf(v) # SecondOf(w))
                            => writers[v].result.value # filepath
                   /\ (\A v \in others : SecondOf(v) # SecondOf(w))
                        => report_directory.files[filepath]
                              = writers[w].report_data

\* two calls stamped in different seconds returned, and each file holds
\* its own record
C19_Witness ==
    \E w, v \in Writers :
        /\ Persisted(w) /\ Persisted(v)
        /\ SecondOf(w) # SecondOf(v)
        /\ writers[w].report_data # writers[v].report_data
        /\ report_directory.files[writers[w].result.value]
              = writers[w].report_data
        /\ report_directory.files[writers[v].result.value]
              = writers[v].report_data

\* C20: the governance record's field_drift is absent if and only if no
\* baseline contract was available: whenever a baseline document was
\* loaded, be it one with no fields or an empty document, field_drift is a
\* FieldDrift record.
C20_DriftAbsentIffNoBaseline ==
    Decided
        => (compatibility_decision.field_drift = None
               <=> baseline_contract = None)

\* the drift between the loaded baseline and the loaded contract has
\* neither removed fields nor type changes nor required-flag changes
AdditiveOnly ==
    LET drift == compare_contract_fields(baseline_contract, contract)
    IN  /\ drift.removed_fields = {}
        /\ drift.type_changes = {}
        /\ drift.required_changes = {}

\* C21: when the drift between baseline and candidate consists only of
\* added fields, the breaking-change override does not fire: the final
\* label and the allowed value are those computed from the version
\* comparison and the mode alone, the same as if no baseline had been
\* supplied.
C21_AdditiveDriftKeepsVersionLabel ==
    (Decided /\ baseline_contract # None /\ AdditiveOnly)
        => LET compared == compare_versions(contract.version,
                                            expected_version).value
               allowed == evaluate_compatibility(compared,
                                                 compatibility_mode).value
               alone == GovernanceRecord(compared, allowed, None, contract,
                                         expected_version,
                                         compatibility_mode,
                                         execution_profile)
           IN  /\ compatibility_decision.decision
                     # "FIELD_BREAKING_CHANGE"
               /\ compatibility_decision.decision
                     = VersionLabel(allowed, compared, compatibility_mode)
               /\ compatibility_decision.allowed = allowed
               /\ compatibility_decision.decision = alone.decision
               /\ compatibility_decision.allowed = alone.allowed

\* a contract that adds a field to its baseline was allowed under override
C21_Witness ==
    /\ Decided
    /\ baseline_contract # None
    /\ compatibility_decision.field_drift # None
    /\ compatibility_decision.field_drift.added_fields # {}
    /\ AdditiveOnly
    /\ compatibility_decision.allowed
    /\ compatibility_decision.decision = "SOFT_PASS_DRIFT"

\* the run is past steps [6]-[11]: it computed a record or ended
Evaluated == pc \in {"crashed", "decided", "reported", "terminated", "done"}

\* C22: when a baseline is available, the candidate differs from it only
\* by added fields, the contract version equals the expected version and
\* the mode is hybrid, the evaluation yields label PASS and impact tier 5
\* with gate NO_ACTION: the added fields do not raise the tier to 4.
C22_HybridEqualAdditiveIsTierFive ==
    (/\ compatibility_mode = "hybrid"
     /\ Evaluated
     /\ baseline_contract # None
     /\ compare_versions(contract.version, expected_version)
           = Return("EQUAL")
     /\ AdditiveOnly
     /\ compare_contract_fields(baseline_contract, contract).added_fields
           # {})
        => /\ Decided
           /\ compatibility_decision.decision = "PASS"
           /\ compatibility_decision.impact_tier = 5
           /\ compatibility_decision.cicd_gate.gate_status = "NO_ACTION"

\* no baseline was loaded, or the loaded one differs from the contract by
\* added fields at most
NoBreakingDrift == baseline_contract = None \/ AdditiveOnly

\* C23: for every contract whose major version is greater than the
\* expected major, under mode strict and with no breaking field drift, the
\* evaluation yields comparison MAJOR_UPGRADE, allowed=false, label
\* HARD_FAIL, impact tier 1 and gate BLOCK, and under batch profile the run
\* ends with exit code 2.
C23_StrictMajorUpgradeFails ==
    (/\ compatibility_mode = "strict"
     /\ Evaluated
     /\ WellFormed(contract.version) /\ WellFormed(expected_version)
     /\ MajorOf(contract.version) > MajorOf(expected_version)
     /\ NoBreakingDrift)
        => /\ Decided
           /\ compatibility_decision.comparison_result = "MAJOR_UPGRADE"
           /\ compatibility_decision.allowed = FALSE
           /\ compatibility_decision.decision = "HARD_FAIL"
           /\ compatibility_decision.impact_tier = 1
           /\ compatibility_decision.cicd_gate.gate_status = "BLOCK"
           /\ execution_profile = "batch"
                => /\ ~ReachedNormalEnd
                   /\ pc \in {"decided", "reported", "terminated"}
                   /\ exit_code \in {-1, 2}
                   /\ pc = "terminated" => EndedThroughHandler(2)

\* scenario B: a major upgrade under strict and batch has ended with 2
C23_Witness ==
    /\ pc = "terminated"
    /\ exit_code = 2
    /\ compatibility_mode = "strict"
    /\ execution_profile = "batch"
    /\ Decided
    /\ compatibility_decision.comparison_result = "MAJOR_UPGRADE"
    /\ compatibility_decision.decision = "HARD_FAIL"
    /\ compatibility_decision.impact_tier = 1
    /\ compatibility_decision.cicd_gate.gate_status = "BLOCK"

\* C24: for every contract with the expected major and a greater minor
\* version, under mode forward_minor and with no baseline available, the
\* evaluation yields comparison MINOR_UPGRADE, allowed=true, label
\* PASS_WITH_FORWARD_COMPAT, impact tier 5 and gate NO_ACTION, and the run
\* reaches its normal end without invoking the termination handler.
C24_ForwardMinorUpgradePasses ==
    (/\ compatibility_mode = "forward_minor"
     /\ Evaluated
     /\ WellFormed(contract.version) /\ WellFormed(expected_version)
     /\ MajorOf(contract.version) = MajorOf(expected_version)
     /\ MinorOf(contract.version) > MinorOf(expected_version)
     /\ baseline_contract = None)
        => /\ Decided
           /\ compatibility_decision.comparison_result = "MINOR_UPGRADE"
           /\ compatibility_decision.allowed = TRUE
           /\ compatibility_decision.decision = "PASS_WITH_FORWARD_COMPAT"
           /\ compatibility_decision.impact_tier = 5
           /\ compatibility_decision.cicd_gate.gate_status = "NO_ACTION"
           /\ ~HandlerInvoked
           /\ pc \in {"decided", "reported", "done"}
           /\ exit_code \in {-1, 0}
           /\ pc = "done" => (ReachedNormalEnd /\ exit_code = 0)

\* scenario A: a minor upgrade under forward_minor reached the normal end
C24_Witness ==
    /\ pc = "done"
    /\ exit_code = 0
    /\ compatibility_mode = "forward_minor"
    /\ baseline_contract = None
    /\ compatibility_decision.comparison_result = "MINOR_UPGRADE"
    /\ compatibility_decision.decision = "PASS_WITH_FORWARD_COMPAT"
    /\ compatibility_decision.impact_tier = 5
    /\ ReachedNormalEnd

\* C25: for all well-formed versions a and b, compare(a,b) = EQUAL iff a
\* and b have the same major and minor; compare(a,b) = MINOR_UPGRADE iff
\* compare(b,a) = MINOR_DOWNGRADE; compare(a,b) = MAJOR_UPGRADE iff
\* compare(b,a) = MAJOR_DOWNGRADE.
C25_CompareAntisymmetric ==
    (/\ pc = "returned"
     /\ WellFormed(args.contract_version)
     /\ WellFormed(args.expected_version))
        => LET a == args.contract_version
               b == args.expected_version
               swapped == compare_versions(b, a)
           IN  /\ result = Return("EQUAL")
                     <=> (MajorOf(a) = MajorOf(b) /\ MinorOf(a) = MinorOf(b))
               /\ result = Return("MINOR_UPGRADE")
                     <=> swapped = Return("MINOR_DOWNGRADE")
               /\ result = Return("MAJOR_UPGRADE")
                     <=> swapped = Return("MAJOR_DOWNGRADE")
               /\ result = Return("MINOR_DOWNGRADE")
                     <=> swapped = Return("MINOR_UPGRADE")
               /\ result = Return("MAJOR_DOWNGRADE")
                     <=> swapped = Return("MAJOR_UPGRADE")

\* a minor downgrade whose reverse is a minor upgrade, the two strings
\* written with different numbers of digits
C25_Witness ==
    /\ pc = "returned"
    /\ WellFormed(args.contract_version)
    /\ WellFormed(args.expected_version)
    /\ Len(args.contract_version) # Len(args.expected_version)
    /\ result = Return("MINOR_DOWNGRADE")
    /\ compare_versions(args.expected_version, args.contract_version)
          = Return("MINOR_UPGRADE")

\* C26: for every contract X, diff(X, X) returns added_fields,
\* removed_fields, type_changes and required_changes all empty.
C26_DiffOfSelfIsEmpty ==
    (pc = "returned" /\ args.expected_contract = args.actual_contract)
        => /\ "value" \in DOMAIN result
           /\ result.value.added_fields = {}
           /\ result.value.removed_fields = {}
           /\ result.value.type_changes = {}
           /\ result.value.required_changes = {}

\* a contract with every field name, one of them required, compared with
\* itself
C26_Witness ==
    /\ pc = "returned"
    /\ args.expected_contract = args.actual_contract
    /\ FieldKeys(args.actual_contract) = FieldNames
    /\ \E n \in FieldNames : args.actual_contract.fields[n].required
    /\ result.value.required_changes = {}
    /\ result.value.type_changes = {}

\* C27: under batch profile, every run whose gate verdict has
\* blocks_pipeline=true (equivalently blocks_deployment=true, impact tier
\* 1) ends with exit code 2 and never reaches the normal end of the run; in
\* particular a MAJOR_UPGRADE evaluated under mode override does not
\* complete successfully.
C27_BlockingGateExitsTwo ==
    (/\ Decided
     /\ execution_profile = "batch"
     /\ compatibility_decision.cicd_gate.blocks_pipeline)
        => /\ compatibility_decision.blocks_deployment
           /\ compatibility_decision.impact_tier = 1
           /\ pc # "done"
           /\ ~ReachedNormalEnd
           /\ exit_code \in {-1, 2}
           /\ pc = "terminated" => EndedThroughHandler(2)

\* C28: in every governance record the orchestrator produces, the impact
\* tier is 1, 4 or 5 and the gate status is BLOCK, AUTO_APPROVE or
\* NO_ACTION: any type or required-flag change forces
\* FIELD_BREAKING_CHANGE, so tiers 2 and 3 (gates REVIEW_REQUIRED and
\* WARNING) are never reached by a full evaluation.
C28_TiersTwoAndThreeUnreached ==
    Decided
        => /\ compatibility_decision.impact_tier \in {1, 4, 5}
           /\ compatibility_decision.cicd_gate.gate_status
                 \in {"BLOCK", "AUTO_APPROVE", "NO_ACTION"}
           /\ compatibility_decision.drift_category
                 \notin {"TYPE_CHANGE", "REQUIRED_FLAG_CHANGE"}
           /\ \A r \in {reports[i] : i \in 1..Len(reports)} :
                 r.impact_tier \in {1, 4, 5}

\* a required-flag change alone, under a policy that allows the version:
\* the record is tier 1, not tier 3
C28_Witness ==
    /\ Decided
    /\ compatibility_decision.field_drift # None
    /\ compatibility_decision.field_drift.required_changes # {}
    /\ compatibility_decision.field_drift.type_changes = {}
    /\ compatibility_decision.field_drift.removed_fields = {}
    /\ compatibility_decision.comparison_result = "MINOR_UPGRADE"
    /\ compatibility_mode = "override"
    /\ compatibility_decision.impact_tier = 1
    /\ compatibility_decision.cicd_gate.gate_status = "BLOCK"

\* the positions of the log at which the audit write was reported
WrittenAt ==
    {j \in 1..Len(log) : log[j] = Line("Compatibility Report Written")}

\* the positions of the log at which the handler reported exit code 2
BreachAt ==
    {i \in 1..Len(log) :
        log[i] = [msg |-> "GOVERNANCE EXIT CODE", code |-> 2]}

\* C29: in every run that computes a decision the audit record is
\* persisted exactly once and before profile enforcement: a run that ends
\* with exit code 2 from enforcement has already written its governance
\* record, and no run invokes the termination handler for a governance
\* breach before the audit write.
C29_AuditOnceBeforeEnforcement ==
    /\ Len(reports) <= 1
    /\ Cardinality(WrittenAt) = Len(reports)
    /\ Cardinality(DOMAIN report_directory.files) = Len(reports)
    /\ \A f \in DOMAIN report_directory.files :
          report_directory.files[f] = compatibility_decision
    /\ reports # <<>> => (Decided /\ reports[1] = compatibility_decision)
    /\ (Decided /\ pc # "decided") => Len(reports) = 1
    /\ (Decided /\ exit_code # -1) => Len(reports) = 1
    /\ exit_code = 2 => (Decided /\ Len(reports) = 1)
    /\ \A i \in BreachAt : \E j \in WrittenAt : j < i
    /\ pc = "reported" => (exit_code = -1 /\ ~HandlerInvoked)

\* a batch run ended by the enforcement with exit code 2, its record
\* written before
C29_Witness ==
    /\ pc = "terminated"
    /\ exit_code = 2
    /\ Len(reports) = 1
    /\ reports[1].allowed = FALSE
    /\ reports[1] = compatibility_decision
    /\ report_directory.files[Filepath(0)] = compatibility_decision
    /\ BreachAt # {}
    /\ \A i \in BreachAt : \E j \in WrittenAt : j < i

\* C30: when two runs call the audit writer concurrently on the same
\* report directory that does not yet exist, under every interleaving of
\* their existence check, directory creation and file write, both calls
\* complete without error and each returns a location.  (A call takes the
\* directory-creation step only if it found no directory.)
C30_ConcurrentWritersComplete ==
    \A w \in Writers :
        /\ writers[w].pc # "raised"
        /\ "exception" \notin DOMAIN writers[w].result
        /\ writers[w].pc \notin {"call", "makedirs", "stamp", "open"}
              => Persisted(w)

====
